---- MODULE Spec2Model ----
(***************************************************************************)
(* stundenzettel-rs: a calendar engine (weekday codes, Easter, holidays,   *)
(* working days of a month) and a generator that partitions a number of    *)
(* hours over the working days and places each part in a daily window.     *)
(*                                                                         *)
(* Conventions.                                                            *)
(*  - Option<T> is a sequence: None == <<>>, Some(x) == <<x>>.             *)
(*  - A function that can panic returns a record with a field `panic`.     *)
(*  - A u32 that may wrap is kept as its residue modulo 2^32 in the window *)
(*    -2^31 .. 2^31-1 (so 2^32-1 is kept as -1); every other number is far *)
(*    from the 32 bit limits and is kept as itself.                        *)
(***************************************************************************)
EXTENDS Integers, Sequences, FiniteSets, TLC

VARIABLES
    pc,               \* position of the running function
    overflow_checks,  \* build profile: TRUE = overflow panics, FALSE = wraps
    args,             \* the inputs of the run
    year,             \* Option<Year>
    month,            \* Option<Month>
    days,             \* Vec<DayOfMonth>
    dow,              \* Option<(day, DayOfWeek)>: last Month::day_of_week call
    date,             \* Option<result of easter / add_days>
    offsets,          \* partition: the sorted cut points
    target,           \* partition: the parts pushed so far / the result
    times,            \* Vec<Option<Time>> of generate_times
    max_per_day,      \* main: the effective max_per_day
    out               \* main: what was printed

vars == <<pc, overflow_checks, args, year, month, days, dow, date,
          offsets, target, times, max_per_day, out>>

calVars == <<year, month, days, dow, date>>
genVars == <<offsets, target, times>>
mainVars == <<max_per_day, out>>

None == <<>>
Some(x) == <<x>>

-----------------------------------------------------------------------------
(* Bounds of the model.                                                    *)

MinYear == 1970
MaxYear == 2100
MaxDelta == 366
MaxN == 4
MaxK == 3
MaxMax == 3
MaxDays == 3
MaxHour == 3

-----------------------------------------------------------------------------
(* u32 / i32 arithmetic as the code performs it.                           *)

\* a - b on u32 (a, b small): below zero it overflows.
SubU32(a, b) == [overflow |-> a >= 0 /\ a - b < 0, value |-> a - b]

\* a + b on u32, a possibly a wrapped residue, b small.
AddU32(a, b) == [overflow |-> a < 0 /\ a + b >= 0, value |-> a + b]

\* a % 7 on u32: a negative residue r stands for r + 2^32, and 2^32 % 7 = 4.
RemU32By7(a) == IF a < 0 THEN ((a % 7) + 4) % 7 ELSE a % 7

\* i32 division and remainder truncate toward zero.
TruncDiv(a, b) == IF a >= 0 THEN a \div b ELSE -((-a) \div b)
TruncRem(a, b) == a - b * TruncDiv(a, b)

-----------------------------------------------------------------------------
(* calendar.rs                                                             *)

DayOfWeek == {"Sunday", "Monday", "Tuesday", "Wednesday", "Thursday",
              "Friday", "Saturday"}

is_weekend(d) == d \in {"Sunday", "Saturday"}

next(d) ==
    CASE d = "Sunday" -> "Monday"
      [] d = "Monday" -> "Tuesday"
      [] d = "Tuesday" -> "Wednesday"
      [] d = "Wednesday" -> "Thursday"
      [] d = "Thursday" -> "Friday"
      [] d = "Friday" -> "Saturday"
      [] d = "Saturday" -> "Sunday"

\* TryFrom<u32> for DayOfWeek: Ok for 0..6, Err(NotADayOfWeek) otherwise.
try_from(value) ==
    CASE value = 0 -> [ok |-> TRUE, v |-> "Sunday"]
      [] value = 1 -> [ok |-> TRUE, v |-> "Monday"]
      [] value = 2 -> [ok |-> TRUE, v |-> "Tuesday"]
      [] value = 3 -> [ok |-> TRUE, v |-> "Wednesday"]
      [] value = 4 -> [ok |-> TRUE, v |-> "Thursday"]
      [] value = 5 -> [ok |-> TRUE, v |-> "Friday"]
      [] value = 6 -> [ok |-> TRUE, v |-> "Saturday"]
      [] OTHER -> [ok |-> FALSE, v |-> "Sunday"]

is_leap_year(y) == y % 4 = 0 /\ (y % 100 # 0 \/ y % 400 = 0)

days_of_month(m, leap_year) ==
    IF m = 2 THEN (IF leap_year THEN 29 ELSE 28)
    ELSE IF m \in {4, 6, 9, 11} THEN 30
    ELSE 31

MONTH_CODES == <<0, 3, 3, 6, 1, 4, 6, 2, 5, 0, 3, 5>>

\* MONTH_CODES[month - 1], zero based
get_month(m) == MONTH_CODES[m]

get_year(y) == LET yy == y % 100 IN (yy + (yy \div 4)) % 7

get_century(y) == ((y \div 100 + 1) * 6) % 8

\* codes::day_of_week: DayOfWeek::try_from((day + month_code) % 7).unwrap()
codes_day_of_week(day, month_code, checks) ==
    LET s == AddU32(month_code, day)
        r == try_from(RemU32By7(s.value))
    IN  [panic |-> (checks /\ s.overflow) \/ ~r.ok, v |-> r.v]

DateOfYear(d, m) == [day |-> d, month |-> m]

DAYS_TO_MONTH ==
    << <<0, 31, 59, 90, 120, 151, 181, 212, 243, 273, 304, 334>>,
       <<0, 31, 60, 91, 121, 152, 182, 213, 244, 274, 305, 335>> >>

\* slice::binary_search on a strictly increasing table: Ok(i) when table[i] is
\* x, else Err(i) with i the insertion point (the number of entries below x).
\* Indices are zero based, as in the code.
binary_search(table, x) ==
    IF \E i \in 1..Len(table) : table[i] = x
    THEN [ok |-> TRUE, v |-> (CHOOSE i \in 1..Len(table) : table[i] = x) - 1]
    ELSE [ok |-> FALSE, v |-> Cardinality({i \in 1..Len(table) : table[i] < x})]

\* A plausible slip: an exact hit taken as the month that starts there.
SearchMonth_TieBug(days_to_month, day_of_year) ==
    LET bs == binary_search(days_to_month, day_of_year)
    IN  IF bs.ok THEN [panic |-> FALSE, v |-> bs.v]
        ELSE [panic |-> bs.v = 0, v |-> bs.v - 1]

\* match binary_search { Ok(v) | Err(v) => v.checked_sub(1).unwrap() }
SearchMonth(days_to_month, day_of_year) ==
    LET bs == binary_search(days_to_month, day_of_year)
    IN  [panic |-> bs.v = 0, v |-> bs.v - 1]

\* NonZeroU32::new(d).unwrap() and NonZeroU32::new(m).unwrap(), lines 134-137
NonZeroDate(d, m) ==
    [panic |-> d <= 0 \/ m <= 0,
     date |-> IF d <= 0 \/ m <= 0 THEN DateOfYear(0, 0) ELSE DateOfYear(d, m)]

\* lines 131-137: `m` is the searched month index
DateInMonth(days_to_month, day_of_year, m) ==
    IF m.panic THEN [panic |-> TRUE, date |-> DateOfYear(0, 0)]
    ELSE NonZeroDate(day_of_year - days_to_month[m.v + 1], m.v + 1)

\* lines 130-137: a negative day of the year fails try_into::<u32>().unwrap()
DateOfDayOfYear(days_to_month, day_of_year) ==
    IF day_of_year < 0 THEN [panic |-> TRUE, date |-> DateOfYear(0, 0)]
    ELSE DateInMonth(days_to_month, day_of_year,
                     SearchMonth(days_to_month, day_of_year))

\* lines 127-137, days_to_month being the table of the year
AddDaysIn(days_to_month, self, delta) ==
    DateOfDayOfYear(days_to_month,
                    days_to_month[self.month] + self.day + delta)

\* DateOfYear::add_days(&self, days: i32, leap_year: bool)
add_days(self, delta, leap_year) ==
    AddDaysIn(DAYS_TO_MONTH[IF leap_year THEN 2 ELSE 1], self, delta)

\* Year::new
YearNew(y, checks) ==
    LET year_code == get_year(y)
        century_code == get_century(y)
        is_leap == is_leap_year(y)
        c == SubU32(year_code + century_code, IF is_leap THEN 1 ELSE 0)
    IN  [panic |-> checks /\ c.overflow,
         v |-> [year |-> y, is_leap |-> is_leap, combined_code |-> c.value]]

\* A plausible slip: the correction term r left out of og.
EasterOffset_NoR(y) ==
    LET k == TruncDiv(y, 100)
        m == 15 + TruncDiv(3 * k + 3, 4) - TruncDiv(8 * k + 13, 25)
        s == 2 - TruncDiv(3 * k + 3, 4)
        a == TruncRem(y, 19)
        d == TruncRem(19 * a + m, 30)
        og == 21 + d
        sz == 7 - TruncRem(y + TruncDiv(y, 4) + s, 7)
        oe == 7 - TruncRem(og - sz, 7)
    IN  og + oe

\* Year::easter, lines 169-178: os, the day of March on which Easter falls
EasterOffset(y) ==
    LET k == TruncDiv(y, 100)
        m == 15 + TruncDiv(3 * k + 3, 4) - TruncDiv(8 * k + 13, 25)
        s == 2 - TruncDiv(3 * k + 3, 4)
        a == TruncRem(y, 19)
        d == TruncRem(19 * a + m, 30)
        r == TruncDiv(d + TruncDiv(a, 11), 29)
        og == 21 + d - r
        sz == 7 - TruncRem(y + TruncDiv(y, 4) + s, 7)
        oe == 7 - TruncRem(og - sz, 7)
    IN  og + oe

\* Year::easter
easter(yr) == add_days(DateOfYear(1, 3), EasterOffset(yr.year) - 1, yr.is_leap)

\* the array of Year::holidays collected: a panic of any add_days aborts
HolidayArray(list) ==
    [panic |-> \E i \in 1..13 : list[i].panic,
     v |-> [i \in 1..13 |-> list[i].date]]

\* Year::holidays after `let easter = self.easter()`: the 13 dates, in the
\* order of the array
HolidaysAround(e, is_leap) ==
    IF e.panic THEN [panic |-> TRUE, v |-> <<>>]
    ELSE HolidayArray(<< [panic |-> FALSE, date |-> DateOfYear(1, 1)],
                         [panic |-> FALSE, date |-> DateOfYear(6, 1)],
                         add_days(e.date, -2, is_leap),
                         add_days(e.date, 1, is_leap),
                         [panic |-> FALSE, date |-> DateOfYear(1, 5)],
                         add_days(e.date, 39, is_leap),
                         add_days(e.date, 50, is_leap),
                         add_days(e.date, 60, is_leap),
                         [panic |-> FALSE, date |-> DateOfYear(15, 8)],
                         [panic |-> FALSE, date |-> DateOfYear(3, 10)],
                         [panic |-> FALSE, date |-> DateOfYear(1, 11)],
                         [panic |-> FALSE, date |-> DateOfYear(25, 12)],
                         [panic |-> FALSE, date |-> DateOfYear(26, 12)] >>)

\* Year::holidays
holidays(yr) == HolidaysAround(easter(yr), yr.is_leap)

\* Month::new
MonthNew(m, yr, checks) ==
    LET c == AddU32(yr.combined_code, get_month(m))
    IN  [panic |-> checks /\ c.overflow,
         v |-> [month |-> m, combined_code |-> c.value,
                num_days |-> days_of_month(m, yr.is_leap)]]

\* Month::day_of_week
day_of_week(mo, day, checks) == codes_day_of_week(day, mo.combined_code, checks)

DayOfMonth(w, d) == [day_of_week |-> w, day_of_month |-> d]

\* std::iter::successors(Some(first), closure) collected: the closure of
\* Month::days yields the next day while day_of_month + 1 < num_days.
RECURSIVE successors(_, _)
successors(day, num_days) ==
    IF day.day_of_month + 1 < num_days
    THEN <<day>> \o successors(DayOfMonth(next(day.day_of_week),
                                          day.day_of_month + 1), num_days)
    ELSE <<day>>

\* Month::days from its first day on, all its items
DaysFrom(first, num_days) ==
    IF first.panic THEN [panic |-> TRUE, v |-> <<>>]
    ELSE [panic |-> FALSE,
          v |-> successors(DayOfMonth(first.v, 1), num_days)]

\* Month::days
MonthDays(mo, checks) == DaysFrom(day_of_week(mo, 1, checks), mo.num_days)

\* month.days().filter(..).collect() of non_holidays_of_month, `h` being
\* year.holidays() and `ds` month.days()
FilterDays(h, ds, m) ==
    IF h.panic \/ ds.panic THEN [panic |-> TRUE, v |-> <<>>]
    ELSE [panic |-> FALSE,
          v |-> SelectSeq(ds.v,
                   LAMBDA day :
                      /\ ~is_weekend(day.day_of_week)
                      /\ ~\E i \in 1..13 :
                            h.v[i] = DateOfYear(day.day_of_month, m))]

\* non_holidays_of_month
non_holidays_of_month(mo, yr, checks) ==
    FilterDays(holidays(yr), MonthDays(mo, checks), mo.month)

-----------------------------------------------------------------------------
(* The calendar functions applied to every year the program accepts.       *)

Months == 1..12

InitCalendar ==
    /\ pc = "start"
    /\ overflow_checks \in BOOLEAN
    /\ args \in [year : MinYear..MaxYear, month : Months]
    /\ year = None /\ month = None /\ days = <<>> /\ dow = None /\ date = None
    /\ offsets = <<>> /\ target = <<>> /\ times = <<>>
    /\ max_per_day = 0 /\ out = <<>>

\* the result `r` of a call stored, or the panic it ended in
SetYear(r, done) ==
    /\ pc' = IF r.panic THEN "panic" ELSE done
    /\ year' = IF r.panic THEN None ELSE Some(r.v)

SetMonth(r, done) ==
    /\ pc' = IF r.panic THEN "panic" ELSE done
    /\ month' = IF r.panic THEN None ELSE Some(r.v)

SetDow(d, r) ==
    /\ pc' = IF r.panic THEN "panic" ELSE "day_of_week"
    /\ dow' = IF r.panic THEN None ELSE Some([day |-> d, day_of_week |-> r.v])

SetDays(r, done) ==
    /\ pc' = IF r.panic THEN "panic" ELSE done
    /\ days' = r.v

CalYearNew ==
    /\ pc = "start"
    /\ SetYear(YearNew(args.year, overflow_checks), "year")
    /\ UNCHANGED <<overflow_checks, args, month, days, dow, date,
                   genVars, mainVars>>

CalMonthNew ==
    /\ pc = "year"
    /\ SetMonth(MonthNew(args.month, year[1], overflow_checks), "month")
    /\ UNCHANGED <<overflow_checks, args, year, days, dow, date,
                   genVars, mainVars>>

CalEaster ==
    /\ pc = "year"
    /\ date' = Some(easter(year[1]))
    /\ pc' = "easter"
    /\ UNCHANGED <<overflow_checks, args, year, month, days, dow,
                   genVars, mainVars>>

CalDayOfWeek ==
    /\ pc = "month"
    /\ \E d \in 1..month[1].num_days :
         SetDow(d, day_of_week(month[1], d, overflow_checks))
    /\ UNCHANGED <<overflow_checks, args, year, month, days, date,
                   genVars, mainVars>>

CalDays ==
    /\ pc = "month"
    /\ SetDays(MonthDays(month[1], overflow_checks), "days")
    /\ UNCHANGED <<overflow_checks, args, year, month, dow, date,
                   genVars, mainVars>>

CalNonHolidays ==
    /\ pc = "month"
    /\ SetDays(non_holidays_of_month(month[1], year[1], overflow_checks),
               "non_holidays")
    /\ UNCHANGED <<overflow_checks, args, year, month, dow, date,
                   genVars, mainVars>>

NextCalendar ==
    \/ CalYearNew
    \/ CalMonthNew
    \/ CalEaster
    \/ CalDayOfWeek
    \/ CalDays
    \/ CalNonHolidays

SpecCalendar == InitCalendar /\ [][NextCalendar]_vars

-----------------------------------------------------------------------------
(* Reference calendar, independent of the code: the Gregorian rules and    *)
(* days counted forward from Thursday 1 January 1970.                      *)

RefLeap(y) == (y % 4 = 0 /\ y % 100 # 0) \/ y % 400 = 0

RefMonthLen(m, leap) ==
    CASE m \in {1, 3, 5, 7, 8, 10, 12} -> 31
      [] m \in {4, 6, 9, 11} -> 30
      [] OTHER -> IF leap THEN 29 ELSE 28

RefYearLen(leap) == IF leap THEN 366 ELSE 365

RECURSIVE RefDaysBeforeYear(_)
RefDaysBeforeYear(y) ==
    IF y <= MinYear THEN 0
    ELSE RefDaysBeforeYear(y - 1) + RefYearLen(RefLeap(y - 1))

RECURSIVE RefDaysBeforeMonth(_, _)
RefDaysBeforeMonth(m, leap) ==
    IF m <= 1 THEN 0
    ELSE RefDaysBeforeMonth(m - 1, leap) + RefMonthLen(m - 1, leap)

RefDayOfYear(dt, leap) == RefDaysBeforeMonth(dt.month, leap) + dt.day

RefValidDate(dt, leap) ==
    /\ dt.month \in 1..12
    /\ dt.day \in 1..RefMonthLen(dt.month, leap)

RefWeekdayNames == <<"Thursday", "Friday", "Saturday", "Sunday", "Monday",
                     "Tuesday", "Wednesday">>

RefWeekday(y, m, d) ==
    RefWeekdayNames[((RefDaysBeforeYear(y)
                      + RefDayOfYear(DateOfYear(d, m), RefLeap(y)) - 1) % 7) + 1]

RECURSIVE NextN(_, _)
NextN(w, n) == IF n = 0 THEN w ELSE NextN(next(w), n - 1)

\* days 1..num_days, weekdays walked from that of day 1
RefWalk(first, num_days) ==
    [i \in 1..num_days |-> DayOfMonth(NextN(first, (i - 1) % 7), i)]

-----------------------------------------------------------------------------
(* Calendar claims, under SpecCalendar.                                    *)

\* C3: for every year 1970..2100, month and valid day, Month::day_of_week(day)
\* is the true Gregorian weekday of that date (1 Jan 2000 a Saturday, 1 Jan
\* 1970 a Thursday).
C3_DayOfWeekIsGregorian ==
    pc = "day_of_week" =>
        dow[1].day_of_week = RefWeekday(args.year, args.month, dow[1].day)

\* C4: Month::days() yields exactly days 1..num_days with cyclically walked
\* weekdays, and non_holidays_of_month returns exactly those of them that are
\* neither weekend nor holiday, in order; 25 and 26 December 2023 are left out.
C4_NonHolidaysComplete ==
    LET mo == month[1]
        first == day_of_week(mo, 1, overflow_checks).v
        walk == RefWalk(first, mo.num_days)
        h == holidays(year[1]).v
        working(day) == /\ day.day_of_week \notin {"Saturday", "Sunday"}
                        /\ \A i \in 1..13 :
                             h[i] # DateOfYear(day.day_of_month, mo.month)
    IN  /\ pc = "days" => days = walk
        /\ pc = "non_holidays" =>
             /\ days = SelectSeq(walk, working)
             /\ (args.year = 2023 /\ args.month = 12) =>
                  \A i \in 1..Len(days) : days[i].day_of_month \notin {25, 26}

\* C6: for every year 1970..2100 Year::easter() returns, without a panic, a
\* date from 22 March to 25 April; Easter 2000 is 23 April, Easter 2024 is
\* 31 March.
C6_EasterInRange ==
    pc = "easter" =>
        LET e == date[1]
        IN  /\ ~e.panic
            /\ \/ (e.date.month = 3 /\ e.date.day >= 22 /\ e.date.day <= 31)
               \/ (e.date.month = 4 /\ e.date.day >= 1 /\ e.date.day <= 25)
            /\ args.year = 2000 => e.date = DateOfYear(23, 4)
            /\ args.year = 2024 => e.date = DateOfYear(31, 3)

C6_Witness ==
    /\ pc = "easter"
    /\ args.year = 2024
    /\ date[1] = [panic |-> FALSE, date |-> DateOfYear(31, 3)]

\* C10: for every year 1970..2100 Year::new computes year_code + century_code
\* - leap without going below zero, so it never aborts and combined_code is
\* a small non-negative integer.
C10_YearNewNeverUnderflows ==
    pc # "start" =>
        /\ year # None
        /\ year[1].combined_code >= 0
        /\ year[1].combined_code =
             get_year(args.year) + get_century(args.year)
               - (IF is_leap_year(args.year) THEN 1 ELSE 0)

-----------------------------------------------------------------------------
(* DateOfYear::add_days applied to every valid date and delta.             *)

ValidDates(leap) ==
    {DateOfYear(d, m) : <<d, m>> \in
        {x \in (1..31) \X (1..12) : x[1] <= days_of_month(x[2], leap)}}

InitAddDays ==
    /\ pc = "start"
    /\ overflow_checks = TRUE
    /\ \E leap \in BOOLEAN :
         args \in [date : ValidDates(leap), leap : {leap}]
    /\ year = None /\ month = None /\ days = <<>> /\ dow = None /\ date = None
    /\ offsets = <<>> /\ target = <<>> /\ times = <<>>
    /\ max_per_day = 0 /\ out = <<>>

AddDaysCall ==
    /\ pc = "start"
    /\ \E x \in (-MaxDelta)..MaxDelta :
         date' = Some([delta |-> x, r |-> add_days(args.date, x, args.leap)])
    /\ pc' = "add_days"
    /\ UNCHANGED <<overflow_checks, args, year, month, days, dow,
                   genVars, mainVars>>

NextAddDays == AddDaysCall

SpecAddDays == InitAddDays /\ [][NextAddDays]_vars

\* C7: for a valid date d and a delta x with 1 <= dayOfYear(d) + x <= 365 (366
\* in a leap year), add_days(d, x, leap) is the valid date exactly x days
\* after d, month starts and month ends included.
C7_AddDaysExact ==
    pc = "add_days" =>
        LET x == date[1].delta
            r == date[1].r
            want == RefDayOfYear(args.date, args.leap) + x
        IN  (1 <= want /\ want <= RefYearLen(args.leap)) =>
                /\ ~r.panic
                /\ RefValidDate(r.date, args.leap)
                /\ RefDayOfYear(r.date, args.leap) = want

C7_Witness ==
    /\ pc = "add_days"
    /\ args = [date |-> DateOfYear(1, 1), leap |-> FALSE]
    /\ date[1] = [delta |-> 31,
                  r |-> [panic |-> FALSE, date |-> DateOfYear(1, 2)]]

-----------------------------------------------------------------------------
(* generate.rs                                                             *)

\* UniformInt::<u32>::new(low, high): the half-open range low..high-1; rand
\* asserts low < high ("Uniform::new called with `low >= high`").
UniformIntNew(low, high) ==
    [panic |-> ~(low < high), range |-> low..(high - 1)]

\* UniformInt::<u32>::new_inclusive(low, high): low..high; asserts low <= high.
UniformIntNewInclusive(low, high) ==
    [panic |-> ~(low <= high), range |-> low..high]

RECURSIVE NonDecreasing(_, _, _)
NonDecreasing(len, lo, hi) ==
    IF len = 0 THEN {<<>>}
    ELSE UNION {{<<v>> \o rest : rest \in NonDecreasing(len - 1, v, hi)} :
                v \in lo..hi}

\* offsets after resize_with(k - 1, || dist.sample(r)) and sort_unstable():
\* any k-1 draws from the distribution, in ascending order.
SortedOffsets(k, dist) ==
    IF dist.range = {} THEN (IF k = 1 THEN {<<>>} ELSE {})
    ELSE LET lo == CHOOSE v \in dist.range : \A w \in dist.range : v <= w
             hi == CHOOSE v \in dist.range : \A w \in dist.range : v >= w
         IN  NonDecreasing(k - 1, lo, hi)

\* the for loop of partition_inner from offset i on: pushes the gaps to
\* target, and stops at the first gap above max.
RECURSIVE PushGaps(_, _, _, _, _)
PushGaps(offs, i, last, max, acc) ==
    IF i > Len(offs) THEN [ok |-> TRUE, target |-> acc, last |-> last]
    ELSE LET p == offs[i] - last
         IN  IF p > max THEN [ok |-> FALSE, target |-> acc, last |-> last]
             ELSE PushGaps(offs, i + 1, offs[i], max, Append(acc, p))

\* partition_inner after the draw: `offs` are the sorted offsets
partition_inner(n, k, max, offs) ==
    LET loop == PushGaps(offs, 1, 0, max, <<>>)
        p == n - loop.last
    IN  IF ~loop.ok THEN [ok |-> FALSE, target |-> loop.target]
        ELSE IF p > max THEN [ok |-> FALSE, target |-> loop.target]
        ELSE [ok |-> TRUE, target |-> Append(loop.target, p)]

\* partition: what the retry loop can return (nothing: it never returns)
PartitionReturns(n, k, max) ==
    LET dist == UniformIntNew(0, n)
    IN  {partition_inner(n, k, max, offs).target :
            offs \in {o \in SortedOffsets(k, dist) :
                        partition_inner(n, k, max, o).ok}}

Time(from, to) == [from |-> from, to |-> to]

\* generate_times, lines 68-75
Distribute(p) ==
    LET max_total == p.days * p.max_per_day
        free == (max_total \div 2) <= p.hours
    IN  [assert_failed |-> ~(p.hours <= max_total),
         distribute_free_time |-> free,
         distribute |-> IF free THEN max_total - p.hours ELSE p.hours]

\* the first map of generate_times, lines 80-86
Durations(p, parts) ==
    [i \in 1..Len(parts) |->
        IF Distribute(p).distribute_free_time
        THEN p.max_per_day - parts[i] ELSE parts[i]]

\* the second map of generate_times, lines 87-96, for one duration: the
\* slots it can produce (to - duration below zero or below from panics)
Slots(p, duration) ==
    IF duration = 0 THEN [panic |-> FALSE, v |-> {None}]
    ELSE LET dist == UniformIntNewInclusive(p.from, p.to - duration)
         IN  [panic |-> p.to - duration < 0 \/ dist.panic,
              v |-> {Some(Time(s, s + duration)) : s \in dist.range}]

RECURSIVE TimesFor(_, _)
TimesFor(p, durations) ==
    IF durations = <<>> THEN {<<>>}
    ELSE {<<x>> \o rest : x \in Slots(p, Head(durations)).v,
                          rest \in TimesFor(p, Tail(durations))}

\* generate_times as one call: it panics (assert!, UniformInt::new), or
\* returns one of the vectors the draws allow, leaving pc at `done`.
GenerateTimesCall(p, done, panicked) ==
    LET d == Distribute(p)
        dist == UniformIntNew(0, d.distribute)
    IN  IF d.assert_failed \/ dist.panic
        THEN /\ pc' = panicked
             /\ UNCHANGED <<offsets, target, times>>
        ELSE \E offs \in SortedOffsets(p.days, dist) :
               LET r == partition_inner(d.distribute, p.days, p.max_per_day, offs)
                   dur == Durations(p, r.target)
               IN  /\ r.ok
                   /\ offsets' = offs
                   /\ target' = r.target
                   /\ IF \E i \in 1..Len(dur) : Slots(p, dur[i]).panic
                      THEN pc' = panicked /\ times' = <<>>
                      ELSE pc' = done /\ times' \in TimesFor(p, dur)

RECURSIVE Sum(_)
Sum(s) == IF s = <<>> THEN 0 ELSE Head(s) + Sum(Tail(s))

-----------------------------------------------------------------------------
(* partition(n, k, max) and its retry loop, one attempt per step.          *)

InitPartition ==
    /\ pc = "loop"
    /\ overflow_checks = TRUE
    /\ args \in [n : 0..MaxN, k : 1..MaxK, max : 0..MaxMax]
    /\ year = None /\ month = None /\ days = <<>> /\ dow = None /\ date = None
    /\ offsets = <<>> /\ target = <<>> /\ times = <<>>
    /\ max_per_day = 0 /\ out = <<>>

\* one call of partition_inner from `while !partition_inner(..) {}`, the
\* sorted draws being `offs`
Attempt(offs) ==
    /\ pc = "loop"
    /\ LET dist == UniformIntNew(0, args.n)
       IN  IF dist.panic
           THEN /\ offs = <<>>
                /\ pc' = "panic"
                /\ UNCHANGED <<offsets, target>>
           ELSE /\ offs \in SortedOffsets(args.k, dist)
                /\ LET r == partition_inner(args.n, args.k, args.max, offs)
                   IN  /\ offsets' = offs
                       /\ target' = r.target
                       /\ pc' = IF r.ok THEN "returned" ELSE "loop"
    /\ UNCHANGED <<overflow_checks, args, calVars, times, mainVars>>

AllOffsets == UNION {NonDecreasing(len, 0, MaxN - 1) : len \in 0..(MaxK - 1)}

PartitionAttempt == \E offs \in AllOffsets : Attempt(offs)

NextPartition == PartitionAttempt

SpecPartition == InitPartition /\ [][NextPartition]_vars

\* Fair random draws: a combination of cut points that can be drawn at every
\* retry is eventually drawn.
FairSpecPartition ==
    /\ InitPartition
    /\ [][NextPartition]_vars
    /\ \A offs \in AllOffsets : WF_vars(Attempt(offs))

\* all vectors of k non-negative integers, each <= max, with sum n
Compositions(n, k, max) ==
    {c \in [1..k -> 0..max] : Sum(c) = n}

Feasible == args.k * args.max >= args.n

\* C2: for n >= 0, k >= 1 and k * max >= n, partition returns exactly k
\* non-negative integers, each <= max, with sum n.
C2_PartitionReturnsComposition ==
    Feasible =>
        /\ pc # "panic"
        /\ pc = "returned" =>
             /\ Len(target) = args.k
             /\ \A i \in 1..Len(target) : 0 <= target[i] /\ target[i] <= args.max
             /\ Sum(target) = args.n

\* C8: every cut point is drawn from 0..n inclusive, so every composition of
\* n into k parts each <= max (a last part of 0 included) is a possible
\* result of partition.
C8_CutPointsInclusive ==
    pc = "returned" =>
        /\ UniformIntNew(0, args.n).range = 0..args.n
        /\ PartitionReturns(args.n, args.k, args.max)
             = Compositions(args.n, args.k, args.max)

\* C9: with fair draws the retry loop of partition eventually returns
\* whenever k * max >= n, and never returns when k * max < n.
C9_LoopReturnsIffFeasible ==
    /\ Feasible => <>(pc = "returned")
    /\ ~Feasible => [](pc # "returned")

-----------------------------------------------------------------------------
(* generate_times applied to bounded Parameters.                           *)

InitGenerate ==
    /\ pc = "start"
    /\ overflow_checks = TRUE
    /\ args \in {p \in [hours : 1..(MaxDays * MaxHour + 1), days : 1..MaxDays,
                        from : 0..MaxHour, to : 0..MaxHour,
                        max_per_day : 0..MaxHour] :
                    /\ p.from <= p.to
                    /\ p.max_per_day <= p.to - p.from
                    /\ p.hours <= p.days * p.max_per_day + 1}
    /\ year = None /\ month = None /\ days = <<>> /\ dow = None /\ date = None
    /\ offsets = <<>> /\ target = <<>> /\ times = <<>>
    /\ max_per_day = 0 /\ out = <<>>

GenerateTimes ==
    /\ pc = "start"
    /\ GenerateTimesCall(args, "generated", "panic")
    /\ UNCHANGED <<overflow_checks, args, calVars, mainVars>>

NextGenerate == GenerateTimes

SpecGenerate == InitGenerate /\ [][NextGenerate]_vars

SlotLength(t) == IF t = None THEN 0 ELSE t[1].to - t[1].from

\* C1: for Parameters with days >= 1, from <= to, max_per_day <= to - from and
\* 1 <= hours <= days * max_per_day, generate_times returns, without a panic,
\* `days` entries; an entry is absent exactly when its day got 0 hours, every
\* present entry has from <= start < end <= to and end - start <= max_per_day,
\* and the lengths sum to `hours`.
C1_GenerateTimesExact ==
    (/\ args.days >= 1 /\ args.from <= args.to
     /\ args.max_per_day <= args.to - args.from
     /\ 1 <= args.hours /\ args.hours <= args.days * args.max_per_day) =>
        /\ pc # "panic"
        /\ pc = "generated" =>
             /\ Len(times) = args.days
             /\ \A i \in 1..Len(times) :
                  /\ times[i] = None <=> Durations(args, target)[i] = 0
                  /\ times[i] # None =>
                       /\ args.from <= times[i][1].from
                       /\ times[i][1].from < times[i][1].to
                       /\ times[i][1].to <= args.to
                       /\ times[i][1].to - times[i][1].from <= args.max_per_day
             /\ Sum([i \in 1..Len(times) |-> SlotLength(times[i])]) = args.hours

-----------------------------------------------------------------------------
(* main.rs: one run of the program.                                        *)

\* u32::saturating_mul; the product of an hour count and a day count is at
\* most 24 * 31 and never saturates.
saturating_mul(a, b) == a * b

\* A plausible slip: the capacity taken one too large.
HoursExceedCapacity_OffByOne(mpd, ndays, hours) ==
    saturating_mul(mpd, ndays) + 1 < hours

\* main, line 101: max_per_day.saturating_mul(days.len()) < hours.get()
HoursExceedCapacity(mpd, ndays, hours) ==
    saturating_mul(mpd, ndays) < hours

\* main, lines 86-95: the effective max_per_day
EffectiveMaxPerDay(a) ==
    IF a.earliest + a.max_per_day <= a.latest THEN a.max_per_day
    ELSE a.latest - a.earliest

\* lines 97-99 after Year::new and Month::new: non_holidays_of_month
CalendarOfDays(yr, mo, d) ==
    [panic |-> d.panic, year |-> Some(yr), month |-> Some(mo), days |-> d.v]

\* lines 97-99 after Year::new: Month::new, non_holidays_of_month
CalendarOfMonth(yr, m, checks) ==
    IF m.panic
    THEN [panic |-> TRUE, year |-> Some(yr), month |-> None, days |-> <<>>]
    ELSE CalendarOfDays(yr, m.v, non_holidays_of_month(m.v, yr, checks))

CalendarOfYear(a, y, checks) ==
    IF y.panic
    THEN [panic |-> TRUE, year |-> None, month |-> None, days |-> <<>>]
    ELSE CalendarOfMonth(y.v, MonthNew(a.month, y.v, checks), checks)

\* lines 97-99: Year::new, Month::new, non_holidays_of_month
RunCalendar(a, checks) == CalendarOfYear(a, YearNew(a.year, checks), checks)

\* The command lines of the model: month, year and csv from small sets; the
\* hour arguments (max_per_day, earliest, latest) from MainWindows; hours
\* small or around the capacity of the month.
MainMonths == {2, 5, 12}
MainYears == {1984, 2023, 2024}
MainWindows == {<<1, 8, 9>>, <<2, 8, 10>>, <<2, 8, 9>>, <<1, 9, 8>>,
                <<1, 8, 8>>, <<1, 8, 10>>}

MainCapacity(m, y, w) ==
    LET eff == IF w[3] < w[2] THEN 0
               ELSE EffectiveMaxPerDay([max_per_day |-> w[1],
                                        earliest |-> w[2], latest |-> w[3]])
    IN  eff * Len(RunCalendar([year |-> y, month |-> m], FALSE).days)

MainHours(m, y, w) ==
    LET cap == MainCapacity(m, y, w)
        tight == w[3] - w[2] <= w[1]
    IN  {h \in {1, 2, cap, cap + 1} \cup (IF tight THEN {cap - 1} ELSE {}) :
            h >= 1}

MainArgs ==
    UNION {[month : {m}, year : {y}, hours : MainHours(m, y, w), csv : BOOLEAN,
            max_per_day : {w[1]}, earliest : {w[2]}, latest : {w[3]}] :
           <<m, y, w>> \in MainMonths \X MainYears \X MainWindows}

Init ==
    /\ pc = "main"
    /\ overflow_checks \in BOOLEAN
    /\ args \in MainArgs
    /\ year = None /\ month = None /\ days = <<>> /\ dow = None /\ date = None
    /\ offsets = <<>> /\ target = <<>> /\ times = <<>>
    /\ max_per_day = args.max_per_day /\ out = <<>>

\* lines 77-84: latest < earliest is an ArgumentConflict error and exit
MainCheckWindow ==
    /\ pc = "main"
    /\ IF args.latest < args.earliest
       THEN /\ pc' = "exit"
            /\ out' = Append(out, [kind |-> "error",
                                   error |-> "ArgumentConflict",
                                   message |-> "Earliest has to be before latest"])
       ELSE /\ pc' = "max_per_day"
            /\ out' = out
    /\ UNCHANGED <<overflow_checks, args, calVars, genVars, max_per_day>>

\* lines 86-95
MainMaxPerDay ==
    /\ pc = "max_per_day"
    /\ max_per_day' = EffectiveMaxPerDay(args)
    /\ out' = IF args.earliest + args.max_per_day <= args.latest THEN out
              ELSE Append(out, [kind |-> "notice",
                                max_per_day |-> args.latest - args.earliest])
    /\ pc' = "calendar"
    /\ UNCHANGED <<overflow_checks, args, calVars, genVars>>

SetCalendar(c) ==
    /\ pc' = IF c.panic THEN "calendar_panic" ELSE "check_hours"
    /\ year' = c.year
    /\ month' = c.month
    /\ days' = c.days

MainCalendar ==
    /\ pc = "calendar"
    /\ SetCalendar(RunCalendar(args, overflow_checks))
    /\ UNCHANGED <<overflow_checks, args, dow, date, genVars, mainVars>>

\* lines 101-113: too many hours is an ArgumentConflict error and exit
MainCheckHours ==
    /\ pc = "check_hours"
    /\ IF HoursExceedCapacity(max_per_day, Len(days), args.hours)
       THEN /\ pc' = "exit"
            /\ out' = Append(out, [kind |-> "error",
                                   error |-> "ArgumentConflict",
                                   message |-> "Can't distribute"])
       ELSE /\ pc' = "generate_times"
            /\ out' = out
    /\ UNCHANGED <<overflow_checks, args, calVars, genVars, max_per_day>>

Parameters ==
    [hours |-> args.hours, days |-> Len(days), from |-> args.earliest,
     to |-> args.latest, max_per_day |-> max_per_day]

\* lines 115-125: the call of generate_times
MainGenerateTimes ==
    /\ pc = "generate_times"
    /\ GenerateTimesCall(Parameters, "assert_eq", "generate_times_panic")
    /\ UNCHANGED <<overflow_checks, args, calVars, mainVars>>

\* lines 127-131
MainAssertEq ==
    /\ pc = "assert_eq"
    /\ LET check == Sum([i \in 1..Len(times) |->
                            IF times[i] = None THEN 0
                            ELSE times[i][1].to - times[i][1].from])
       IN  pc' = IF check = args.hours THEN "print" ELSE "assert_eq_panic"
    /\ UNCHANGED <<overflow_checks, args, calVars, genVars, mainVars>>

\* one println! of lines 135-152
SlotLine(time, day) ==
    [kind |-> "slot", csv |-> args.csv, day |-> day.day_of_month,
     month |-> month[1].month, year |-> year[1].year,
     from |-> time.from, to |-> time.to]

\* times.iter().zip(&days).for_each(..) from pair i on
RECURSIVE PrintFrom(_)
PrintFrom(i) ==
    IF i > Len(times) \/ i > Len(days) THEN <<>>
    ELSE (IF times[i] = None THEN <<>> ELSE <<SlotLine(times[i][1], days[i])>>)
         \o PrintFrom(i + 1)

\* lines 133-155
MainPrint ==
    /\ pc = "print"
    /\ out' = out \o PrintFrom(1)
    /\ pc' = "done"
    /\ UNCHANGED <<overflow_checks, args, calVars, genVars, max_per_day>>

Next ==
    \/ MainCheckWindow
    \/ MainMaxPerDay
    \/ MainCalendar
    \/ MainCheckHours
    \/ MainGenerateTimes
    \/ MainAssertEq
    \/ MainPrint

Spec == Init /\ [][Next]_vars

\* generate_times has been called (it may have panicked inside)
GenerationReached ==
    pc \in {"generate_times_panic", "assert_eq", "assert_eq_panic", "print",
            "done"}

\* the hour checks of main have been passed or have failed
HoursChecked == pc = "exit" \/ pc = "generate_times" \/ GenerationReached

SlotLines == SelectSeq(out, LAMBDA l : l.kind = "slot")

\* C5: when the requested hours exceed (working days of the month) * (the
\* effective max_per_day), or latest < earliest, main reports an argument
\* conflict and exits before generate_times is called, and prints no slot.
C5_RejectedBeforeGeneration ==
    /\ (pc # "main" /\ args.latest < args.earliest) =>
          /\ pc = "exit"
          /\ out[Len(out)].error = "ArgumentConflict"
          /\ SlotLines = <<>>
    /\ (HoursChecked /\ args.earliest <= args.latest
          /\ args.hours > Len(days) * EffectiveMaxPerDay(args)) =>
          /\ pc = "exit"
          /\ out[Len(out)].error = "ArgumentConflict"
          /\ SlotLines = <<>>

C5_Witness ==
    /\ pc = "exit"
    /\ Len(days) > 0
    /\ EffectiveMaxPerDay(args) > 0
    /\ args.hours > Len(days) * EffectiveMaxPerDay(args)
    /\ out[Len(out)].error = "ArgumentConflict"

====
